---- MODULE Spec2Model ----
(***************************************************************************)
(* A model of the chess-vision scripts: the interactive engine session     *)
(* (app.py), the random position sampler and the renderer's coordinate     *)
(* transform (chess_image_gen.py), the dataset generator (gen_dataset.py)  *)
(* and the dataset validator (validate_dataset.py).                        *)
(*                                                                         *)
(* The scripts are independent programs: the variable prog says which one  *)
(* a behaviour runs, and the variables of the others keep their initial    *)
(* values.                                                                 *)
(*                                                                         *)
(* The rules library (python-chess) and the engine binary are external.    *)
(* The library is modelled by a small game with the interface the scripts  *)
(* use (legal_moves, push, is_game_over, turn, fen, Board(fen), is_valid): *)
(* a position is a pile of counters and the side to move, a move takes 1   *)
(* to MaxTake counters, a position without counters has no legal move, and *)
(* the pile DrawPile is a finished game that still has legal moves (as a   *)
(* draw by the 75-move rule or by insufficient material has).              *)
(***************************************************************************)
EXTENDS Integers, Sequences, FiniteSets, TLC

\* ------------------------------------------------------------ bounds
StartPile == 12
MaxTake == 2
DrawPile == 3
MaxN == 3
MaxRows == 3
MaxPliesArg == 12
MinPliesArg == 8

\* ------------------------------------------------- the rules library
WHITE == TRUE
BLACK == FALSE

\* chess.Board(): the initial position
InitialBoard == [pile |-> StartPile, turn |-> WHITE]

\* board.legal_moves
legal_moves(b) == {m \in 1..MaxTake : m <= b.pile}

\* board.push(move)
push(b, m) == [pile |-> b.pile - m, turn |-> ~b.turn]

\* board.is_game_over(): no legal move, or a draw that leaves legal moves
is_game_over(b) == legal_moves(b) = {} \/ b.pile = DrawPile

\* board.is_valid()
is_valid(b) == b.pile >= 0 /\ b.pile <= StartPile

\* board.fen(): the position as text
fen_of(b) == [placement |-> b.pile, side |-> IF b.turn = WHITE THEN "w" ELSE "b"]

\* chess.Board(fen) raises ValueError on text it cannot parse
fen_parses(f) == f.side \in {"w", "b"} /\ f.placement >= 0

\* chess.Board(fen), for text that parses
Board(f) == [pile |-> f.placement, turn |-> (f.side = "w")]

\* The move texts of the game; "0000" is the null move, which parses and
\* is never legal.
MoveNames == <<"a1a2", "a1a3", "a1a4", "a1a5">>
NullMove == 0
UciTexts == {MoveNames[k] : k \in 1..Len(MoveNames)} \cup {"0000"}

\* chess.Move.from_uci(text) raises on any other text
uci_parses(s) == s \in UciTexts

\* chess.Move.from_uci(text), for text that parses
from_uci(s) == IF s = "0000" THEN NullMove
               ELSE CHOOSE k \in 1..Len(MoveNames) : MoveNames[k] = s

\* move.uci()
uci(m) == MoveNames[m]

\* ------------------------------------------------------------ state
VARIABLES prog,
          \* app.py
          pc, err, play_white, board, stdin, stdout, engine, epos,
          sent, readyok_read, eof_read, printed, last_input,
          \* chess_image_gen.py, random_legal_fen
          spc, max_plies, move_stack, sample,
          \* gen_dataset.py
          gpc, n, i, cur_fen, images, buf, disk,
          \* validate_dataset.py
          vpc, table, row_idx, invalid_rows, report,
          \* chess_image_gen.py, render_position
          rpc, flipped, occupied, painted, placed

appVars == <<pc, err, play_white, board, stdin, stdout, engine, epos,
             sent, readyok_read, eof_read, printed, last_input>>
samVars == <<spc, max_plies, move_stack, sample>>
genVars == <<gpc, n, i, cur_fen, images, buf, disk>>
valVars == <<vpc, table, row_idx, invalid_rows, report>>
renVars == <<rpc, flipped, occupied, painted, placed>>
vars == <<prog, appVars, samVars, genVars, valVars, renVars>>

Programs == {"app", "sample", "gen", "validate", "render"}

\* ---------------------------------------------------------- app.py
\* str.strip().lower() on the console texts of the model
Normalise(s) == CASE s = "QUIT " -> "quit"
                  [] s = "W" -> "w"
                  [] s = " a1a2" -> "a1a2"
                  [] OTHER -> s

ColorTexts == {"w", "W", "b", "x"}
FenChoices == {"y", "n"}
FenTexts == {fen_of(InitialBoard),
             fen_of([pile |-> 4, turn |-> BLACK]),
             fen_of([pile |-> 0, turn |-> WHITE]),
             [placement |-> 4, side |-> "x"]}
MoveTexts == {"quit", "QUIT ", "e2e9", "", "0000", " a1a2"}
               \cup {MoveNames[k] : k \in 1..Len(MoveNames)}

AppInit == /\ pc = "input"
           /\ err = "none"
           /\ play_white = FALSE
           /\ board = InitialBoard
           /\ stdin = <<>>
           /\ stdout = <<>>
           /\ engine = "running"
           /\ epos = InitialBoard
           /\ sent = {}
           /\ readyok_read = FALSE
           /\ eof_read = FALSE
           /\ printed = {}
           /\ last_input = "none"

\* The operator answers the two startup prompts and the board is built.
AppStart == /\ prog = "app" /\ pc = "input"
            /\ \E color \in ColorTexts, choice \in FenChoices, f \in FenTexts :
                 /\ play_white' = (Normalise(color) = "w")
                 /\ IF Normalise(choice) = "y"
                    THEN IF fen_parses(f)
                         THEN board' = Board(f) /\ pc' = "handshake" /\ err' = err
                         ELSE board' = board /\ pc' = "crashed" /\ err' = "ValueError"
                    ELSE board' = InitialBoard /\ pc' = "handshake" /\ err' = err
            /\ printed' = {}
            /\ UNCHANGED <<prog, samVars, genVars, valVars, renVars, stdin, stdout, engine, epos, sent, readyok_read,
                           eof_read, last_input>>

\* send_command writes to the engine's stdin; the write fails when the
\* engine process has exited.
CanSend == engine = "running"

\* send_command("uci"); send_command("isready")
Handshake == /\ prog = "app" /\ pc = "handshake"
             /\ IF CanSend
                THEN /\ stdin' = stdin \o <<[cmd |-> "uci", fen |-> fen_of(board)],
                                           [cmd |-> "isready", fen |-> fen_of(board)]>>
                     /\ sent' = sent \cup {"uci", "isready"}
                     /\ pc' = "loop" /\ err' = err
                ELSE /\ pc' = "crashed" /\ err' = "BrokenPipeError"
                     /\ UNCHANGED <<stdin, sent>>
             /\ printed' = {}
             /\ UNCHANGED <<prog, samVars, genVars, valVars, renVars, play_white, board, stdout, engine, epos,
                            readyok_read, eof_read, last_input>>

\* while not board.is_game_over(): the loop ends
LoopExit == /\ prog = "app" /\ pc = "loop"
            /\ is_game_over(board)
            /\ pc' = "done"
            /\ printed' = {}
            /\ UNCHANGED <<prog, samVars, genVars, valVars, renVars, err, play_white, board, stdin, stdout, engine, epos,
                           sent, readyok_read, eof_read, last_input>>

\* move in board.legal_moves
move_is_legal_unchecked(m, b) == TRUE

move_is_legal(m, b) == m \in legal_moves(b)

\* The condition of the if: it is the operator's turn
OperatorToMove(b, pw) == (b.turn = WHITE /\ pw) \/ (b.turn = BLACK /\ ~pw)

\* One iteration of the loop on the operator's turn
OperatorTurn == /\ prog = "app" /\ pc = "loop"
                /\ ~is_game_over(board)
                /\ OperatorToMove(board, play_white)
                /\ \E text \in MoveTexts :
                     LET move_uci == Normalise(text) IN
                     /\ last_input' = text
                     /\ IF move_uci = "quit"
                        THEN /\ pc' = "done" /\ board' = board
                             /\ printed' = {"Current Board"}
                        ELSE IF ~uci_parses(move_uci)
                        THEN /\ pc' = "loop" /\ board' = board
                             /\ printed' = {"Current Board", "Invalid move format Try again"}
                        ELSE IF move_is_legal(from_uci(move_uci), board)
                        THEN /\ pc' = "loop" /\ board' = push(board, from_uci(move_uci))
                             /\ printed' = {"Current Board"}
                        ELSE /\ pc' = "loop" /\ board' = board
                             /\ printed' = {"Current Board", "Illegal move. Try again"}
                /\ UNCHANGED <<prog, samVars, genVars, valVars, renVars, err, play_white, stdin, stdout, engine, epos,
                               sent, readyok_read, eof_read>>

\* The engine's turn: send_command(position fen ...); send_command(go depth 12)
EngineTurnSend == /\ prog = "app" /\ pc = "loop"
                  /\ ~is_game_over(board)
                  /\ ~OperatorToMove(board, play_white)
                  /\ IF CanSend
                     THEN /\ stdin' = stdin \o <<[cmd |-> "position", fen |-> fen_of(board)],
                                                [cmd |-> "go", fen |-> fen_of(board)]>>
                          /\ sent' = sent \cup {"position", "go"}
                          /\ pc' = "search" /\ err' = err
                     ELSE /\ pc' = "crashed" /\ err' = "BrokenPipeError"
                          /\ UNCHANGED <<stdin, sent>>
                  /\ printed' = {"Current Board"}
                  /\ UNCHANGED <<prog, samVars, genVars, valVars, renVars, play_white, board, stdout, engine, epos,
                                 readyok_read, eof_read, last_input>>

\* What the session does with the move get_bestmove returned: print it,
\* push it, and print the two lines that follow the push.
AfterBestmove(tok) ==
    IF uci_parses(tok)
    THEN /\ board' = push(board, from_uci(tok))
         /\ pc' = "loop" /\ err' = err
         /\ printed' = {"bestmove", "Stock fish plays", "Game Over", "result"}
    ELSE /\ board' = board
         /\ pc' = "crashed" /\ err' = "InvalidMoveError"
         /\ printed' = {"bestmove", "Stock fish plays"}

\* One iteration of the loop of get_bestmove: readline blocks while the
\* pipe is empty and the engine runs, and returns '' at end of stream.
ReadLine == /\ prog = "app" /\ pc = "search"
            /\ IF stdout # <<>>
               THEN LET line == Head(stdout) IN
                    /\ stdout' = Tail(stdout)
                    /\ readyok_read' = (readyok_read \/ line.kind = "readyok")
                    /\ eof_read' = eof_read
                    /\ IF line.kind = "bestmove"
                       THEN AfterBestmove(line.tok)
                       ELSE /\ printed' = {line.kind}
                            /\ UNCHANGED <<board, pc, err>>
               ELSE /\ engine = "exited"
                    /\ eof_read' = TRUE
                    /\ printed' = {}
                    /\ UNCHANGED <<stdout, readyok_read, board, pc, err>>
            /\ UNCHANGED <<prog, samVars, genVars, valVars, renVars, play_white, stdin, engine, epos, sent, last_input>>

\* The engine process reads one command and answers it.
Line(k, t) == [kind |-> k, tok |-> t]

EngineAnswers(c) ==
    CASE c.cmd = "uci" -> {<<Line("uciok", "")>>}
      [] c.cmd = "isready" -> {<<Line("readyok", "")>>}
      [] c.cmd = "position" -> {<<>>}
      [] c.cmd = "go" ->
           {<<Line("info", ""), Line("bestmove", uci(m))>> : m \in legal_moves(epos)}
             \cup {<<Line("info", ""), Line("bestmove", "(none)")>>}

EngineRespond == /\ prog = "app" /\ engine = "running"
                 /\ stdin # <<>>
                 /\ LET c == Head(stdin) IN
                    /\ stdin' = Tail(stdin)
                    /\ epos' = IF c.cmd = "position" THEN Board(c.fen) ELSE epos
                    /\ \E ans \in EngineAnswers(c) : stdout' = stdout \o ans
                 /\ UNCHANGED <<prog, samVars, genVars, valVars, renVars, pc, err, play_white, board, engine, sent,
                                readyok_read, eof_read, printed, last_input>>

\* The engine process exits on its own.
EngineExit == /\ prog = "app" /\ engine = "running"
              /\ pc \notin {"done", "crashed"}   \* the model ends with the session
              /\ engine' = "exited"
              /\ UNCHANGED <<prog, samVars, genVars, valVars, renVars, pc, err, play_white, board, stdin, stdout, epos,
                             sent, readyok_read, eof_read, printed, last_input>>

AppNext == \/ AppStart \/ Handshake \/ LoopExit \/ OperatorTurn \/ EngineTurnSend
           \/ ReadLine \/ EngineRespond \/ EngineExit

\* ------------------------------- chess_image_gen.py, random_legal_fen
MinPlies == 10
DefaultMaxPlies == 80

\* The loop of random_legal_fen, for every outcome of random.choice: live
\* are the playouts still in the loop, finished those that left it by a
\* break, k the iterations that remain.
RECURSIVE Playout(_, _, _)
Playout(live, finished, k) ==
    IF k = 0 \/ live = {} THEN finished \cup live
    ELSE LET stuck == {p \in live : legal_moves(p.board) = {}}
             moved == UNION {{[board |-> push(p.board, m), stack |-> Append(p.stack, m)]
                               : m \in legal_moves(p.board)} : p \in live \ stuck}
             over == {p \in moved : is_game_over(p.board)}
         IN Playout(moved \ over, finished \cup stuck \cup over, k - 1)

\* random.randint(10, max_plies): raises ValueError on an empty range
randint(lo, hi) == lo..hi

\* random_legal_fen(max_plies): every playout it can return
random_legal_fen(K) ==
    UNION {Playout({[board |-> InitialBoard, stack |-> <<>>]}, {}, plies)
             : plies \in randint(MinPlies, K)}

SamInit == /\ spc = "call"
           /\ max_plies = 0
           /\ move_stack = <<>>
           /\ sample = fen_of(InitialBoard)

\* A call of random_legal_fen(max_plies)
SampleCall == /\ prog = "sample" /\ spc = "call"
              /\ \E K \in MinPliesArg..MaxPliesArg :
                   /\ max_plies' = K
                   /\ IF randint(MinPlies, K) = {}
                      THEN /\ spc' = "ValueError"
                           /\ UNCHANGED <<move_stack, sample>>
                      ELSE \E p \in random_legal_fen(K) :
                             /\ move_stack' = p.stack
                             /\ sample' = fen_of(p.board)
                             /\ spc' = "returned"
              /\ UNCHANGED <<prog, appVars, genVars, valVars, renVars>>

\* ------------------------------------------------------ gen_dataset.py
PadWidth == 6
DigitChars == <<"0", "1", "2", "3", "4", "5", "6", "7", "8", "9">>

\* The decimal digits of k
RECURSIVE Digits(_)
Digits(k) == IF k < 10 THEN <<DigitChars[k + 1]>>
             ELSE Append(Digits(k \div 10), DigitChars[(k % 10) + 1])

\* f"{i:06d}"
Format06(k) == LET d == Digits(k) IN
               IF Len(d) >= PadWidth THEN d
               ELSE [j \in 1..(PadWidth - Len(d)) |-> "0"] \o d

\* img_file = f"{i:06d}.png"
ImgFile_unpadded(k) == Digits(k) \o <<".", "p", "n", "g">>

ImgFile(k) == Format06(k) \o <<".", "p", "n", "g">>

\* The columns of the table the model keeps
Header == <<"id", "fen", "turn", "is_game_over">>

\* The row of a sample
Row(img_file, f) == <<img_file, f, Board(f).turn, is_game_over(Board(f))>>

\* The positions random_legal_fen() returns with its default max_plies
DefaultSamples == {fen_of(p.board) : p \in random_legal_fen(DefaultMaxPlies)}

\* is_legal_fen(fen)
is_legal_fen(f) == fen_parses(f) /\ is_valid(Board(f))

GenInit == /\ gpc = "start"
           /\ n = 0
           /\ i = 0
           /\ cur_fen = fen_of(InitialBoard)
           /\ images = <<>>
           /\ buf = <<>>
           /\ disk = <<>>

\* makedirs, open(meta_path, "w") and the header row, which goes to the
\* file object's buffer
GenOpen == /\ prog = "gen" /\ gpc = "start"
           /\ \E count \in 0..MaxN : n' = count
           /\ disk' = <<>>
           /\ buf' = <<Header>>
           /\ i' = 1
           /\ gpc' = "loop"
           /\ UNCHANGED <<prog, appVars, samVars, valVars, renVars, cur_fen, images>>

\* fen = random_legal_fen(); render_position(...) checks the position and
\* saves the image. When it raises, the with block closes the file, which
\* flushes the buffer.
GenRender == /\ prog = "gen" /\ gpc = "loop"
             /\ i <= n
             /\ \E f \in DefaultSamples :
                  /\ cur_fen' = f
                  /\ IF is_legal_fen(f)
                     THEN /\ images' = Append(images, ImgFile(i))
                          /\ gpc' = "row"
                          /\ UNCHANGED <<buf, disk>>
                     ELSE /\ disk' = disk \o buf
                          /\ buf' = <<>>
                          /\ gpc' = "raised"
                          /\ UNCHANGED images
             /\ UNCHANGED <<prog, appVars, samVars, valVars, renVars, n, i>>

\* render_position raises for a cause outside the position (no font for
\* the glyphs, the image cannot be saved): the file is closed as above
GenRenderRaises == /\ prog = "gen" /\ gpc = "loop"
                   /\ i <= n
                   /\ disk' = disk \o buf
                   /\ buf' = <<>>
                   /\ gpc' = "raised"
                   /\ UNCHANGED <<prog, appVars, samVars, valVars, renVars, n, i,
                                  cur_fen, images>>

\* writer.writerow(...): the row goes to the file object's buffer, which
\* is written out whenever it is full
GenWriteRow == /\ prog = "gen" /\ gpc = "row"
               /\ \E full \in BOOLEAN :
                    IF full
                    THEN disk' = disk \o buf /\ buf' = <<Row(ImgFile(i), cur_fen)>>
                    ELSE disk' = disk /\ buf' = Append(buf, Row(ImgFile(i), cur_fen))
               /\ i' = i + 1
               /\ gpc' = "loop"
               /\ UNCHANGED <<prog, appVars, samVars, valVars, renVars, n, cur_fen, images>>

\* The loop ends and the with block closes the file
GenClose == /\ prog = "gen" /\ gpc = "loop"
            /\ i > n
            /\ disk' = disk \o buf
            /\ buf' = <<>>
            /\ gpc' = "done"
            /\ UNCHANGED <<prog, appVars, samVars, valVars, renVars, n, i, cur_fen, images>>

\* The process is killed (or the machine stops): what the file object
\* still buffers is lost
GenKill == /\ prog = "gen" /\ gpc \in {"loop", "row"}
           /\ buf' = <<>>
           /\ gpc' = "killed"
           /\ UNCHANGED <<prog, appVars, samVars, valVars, renVars, n, i, cur_fen,
                          images, disk>>

GenNext == GenOpen \/ GenRender \/ GenRenderRaises \/ GenWriteRow \/ GenClose \/ GenKill

\* ------------------------------------------------- validate_dataset.py
\* The rows csv.DictReader yields: an identifier and a position text
RowIds == {ImgFile(1), ImgFile(2)}
RowFens == {fen_of([pile |-> 2, turn |-> WHITE]),
            [placement |-> StartPile + 1, side |-> "w"],
            [placement |-> 2, side |-> "x"]}
RowChoices == [id : RowIds, fen : RowFens]
Tables == UNION {[1..k -> RowChoices] : k \in 0..MaxRows}

\* The body of the for loop: what one row adds to invalid_rows
validate_row_parse_only(row) ==
    IF fen_parses(row.fen) THEN <<>> ELSE <<<<row.id, row.fen, "Error">>>>

validate_row(row) ==
    IF fen_parses(row.fen)
    THEN IF ~is_valid(Board(row.fen))
         THEN <<<<row.id, row.fen, "Invalid board state">>>>
         ELSE <<>>
    ELSE <<<<row.id, row.fen, "Error">>>>

ValInit == /\ vpc = "start"
           /\ table = <<>>
           /\ row_idx = 0
           /\ invalid_rows = <<>>
           /\ report = [written |-> FALSE, lines |-> <<>>, message |-> "none"]

\* open(meta_file) and the DictReader over its rows
ValOpen == /\ prog = "validate" /\ vpc = "start"
           /\ table' \in Tables
           /\ row_idx' = 1
           /\ invalid_rows' = <<>>
           /\ vpc' = "rows"
           /\ UNCHANGED <<prog, appVars, samVars, genVars, renVars, report>>

\* One iteration of for row in reader
ValRow == /\ prog = "validate" /\ vpc = "rows"
          /\ row_idx <= Len(table)
          /\ invalid_rows' = invalid_rows \o validate_row(table[row_idx])
          /\ row_idx' = row_idx + 1
          /\ UNCHANGED <<prog, appVars, samVars, genVars, renVars, vpc, table, report>>

\* After the loop: the warnings file, or the success message
ValReport == /\ prog = "validate" /\ vpc = "rows"
             /\ row_idx > Len(table)
             /\ IF invalid_rows # <<>>
                THEN report' = [written |-> TRUE,
                                lines |-> [j \in 1..Len(invalid_rows) |-> invalid_rows[j][1]],
                                message |-> "Found invalid positions"]
                ELSE report' = [report EXCEPT !.message = "All positions are valid"]
             /\ vpc' = "done"
             /\ UNCHANGED <<prog, appVars, samVars, genVars, renVars, table, row_idx,
                            invalid_rows>>

ValNext == ValOpen \/ ValRow \/ ValReport

\* ------------------------------- chess_image_gen.py, render_position
BoardSize == 8
Top == 7

\* algebraic_to_xy(file_idx, rank_idx, flipped)
algebraic_to_xy_mirror_only(file_idx, rank_idx, flip) ==
    IF flip THEN <<Top - file_idx, Top - rank_idx>>
    ELSE <<file_idx, Top - rank_idx>>

algebraic_to_xy(file_idx, rank_idx, flip) ==
    IF flip THEN <<Top - file_idx, rank_idx>>
    ELSE <<file_idx, Top - rank_idx>>

\* chess.SQUARES, chess.square_file, chess.square_rank
SQUARES == 0..(BoardSize * BoardSize - 1)
square_file(sq) == sq % BoardSize
square_rank(sq) == sq \div BoardSize

\* The render requests of the model: a position text, and the squares
\* board.piece_at finds occupied
RenderFens == {fen_of(InitialBoard), [placement |-> StartPile + 1, side |-> "w"]}
OccupiedChoices == {{}, {0}, {4, 60}, {0, 7, 27, 56, 63}}

RenInit == /\ rpc = "call"
           /\ flipped = FALSE
           /\ occupied = {}
           /\ painted = <<>>
           /\ placed = {}

\* render_position(fen, ..., flipped, ...)
RenderPosition ==
    /\ prog = "render" /\ rpc = "call"
    /\ \E f \in RenderFens, flip \in BOOLEAN, occ \in OccupiedChoices :
         /\ flipped' = flip
         /\ occupied' = occ
         /\ IF ~is_legal_fen(f)
            THEN /\ rpc' = "ValueError"
                 /\ UNCHANGED <<painted, placed>>
            ELSE /\ painted' = [sq \in (0..(BoardSize - 1)) \X (0..(BoardSize - 1)) |->
                                  algebraic_to_xy(sq[1], sq[2], flip)]
                 /\ placed' = {<<sq, algebraic_to_xy(square_file(sq), square_rank(sq), flip)>>
                                 : sq \in occ}
                 /\ rpc' = "saved"
    /\ UNCHANGED <<prog, appVars, samVars, genVars, valVars>>

\* ----------------------------------------------------- specification
Init == /\ prog \in Programs
        /\ AppInit /\ SamInit /\ GenInit /\ ValInit /\ RenInit

Next == AppNext \/ SampleCall \/ GenNext \/ ValNext \/ RenderPosition

Spec == Init /\ [][Next]_vars

\* ============================================================ claims

\* C1: when the engine's output stream has ended before a best-move line
\* was read, the search ends by raising EngineProtocolError: once readline
\* has returned end-of-stream the session is in that error, never still in
\* the read loop and never in another error.
C1_EndOfStreamRaises ==
    eof_read => (pc = "crashed" /\ err = "EngineProtocolError")

\* C2: no position and no go command has been sent unless the session has
\* sent uci and isready and has read the engine's readyok.
C2_ReadyBeforeSearch ==
    (sent \cap {"position", "go"} # {})
        => ({"uci", "isready"} \subseteq sent /\ readyok_read)

\* C3: when the session has ended (game over, quit, or an unhandled error)
\* the engine process started at session start is no longer running.
C3_EngineStoppedAtExit ==
    pc \in {"done", "crashed"} => engine # "running"

\* C4: on the operator's turn, an input other than quit that is malformed
\* or an illegal move leaves the position and the side to move unchanged,
\* sends nothing to the engine, raises nothing, and leaves the session at
\* the prompt of the same turn.
RejectedInput(text, b) ==
    LET u == Normalise(text) IN
    u # "quit" /\ (~uci_parses(u) \/ from_uci(u) \notin legal_moves(b))

C4_BadInputRejected ==
    [][(/\ prog = "app" /\ pc = "loop"
        /\ ~is_game_over(board) /\ OperatorToMove(board, play_white)
        /\ last_input' \in MoveTexts
        /\ RejectedInput(last_input', board))
       => (/\ board' = board
           /\ play_white' = play_white
           /\ Len(stdin') <= Len(stdin)
           /\ sent' = sent
           /\ pc' = "loop" /\ err' = "none"
           /\ ~is_game_over(board') /\ OperatorToMove(board', play_white'))]_vars

C4_Witness ==
    /\ pc = "loop"
    /\ last_input = "a1a3"
    /\ board.pile = 1
    /\ "Illegal move. Try again" \in printed

\* C5 as stated: after a run for n samples there are n images, one header
\* row and n data rows, the identifiers are the zero-padded integers 1..n,
\* and the identifier of row k is the filename stem of image k.
LastDot(name) == CHOOSE j \in 1..Len(name) :
                   name[j] = "." /\ \A k \in (j + 1)..Len(name) : name[k] # "."
Stem(name) == SubSeq(name, 1, LastDot(name) - 1)
IsDigits(t) == \A j \in 1..Len(t) : \E d \in 1..Len(DigitChars) : DigitChars[d] = t[j]
RECURSIVE DecimalValue(_)
DecimalValue(t) ==
    IF t = <<>> THEN 0
    ELSE 10 * DecimalValue(SubSeq(t, 1, Len(t) - 1))
           + (CHOOSE d \in 0..9 : DigitChars[d + 1] = t[Len(t)])

CountsAndStems ==
    /\ Len(images) = n
    /\ Len(disk) = n + 1
    /\ disk[1] = Header
    /\ \A k \in 1..n :
         /\ Len(Stem(images[k])) = 6
         /\ IsDigits(Stem(images[k]))
         /\ DecimalValue(Stem(images[k])) = k

C5_RowIdIsStem ==
    gpc = "done" => /\ CountsAndStems
                    /\ \A k \in 1..n : disk[k + 1][1] = Stem(images[k])

\* C5, amended: the same counts and stems, and the identifier of row k is
\* the file name of image k: its stem followed by .png.
C5_RowIdIsFileName ==
    gpc = "done" => /\ CountsAndStems
                    /\ \A k \in 1..n :
                         disk[k + 1][1] = Stem(images[k]) \o <<".", "p", "n", "g">>

C5_Witness == gpc = "done" /\ n >= 2 /\ Len(disk) = n + 1

\* C6: if the run stops at any point, the table on disk holds the header
\* and one row for every sample whose image has been saved.
C6_RowsSurviveCrash ==
    gpc \in {"killed", "raised"}
        => /\ Len(disk) = 1 + Len(images)
           /\ disk[1] = Header
           /\ \A k \in 1..Len(images) : disk[k + 1][1] = images[k]

\* C7: the validator examines every row, its warnings are exactly one
\* entry per row whose position text does not parse or is not a legal
\* position, in table order and naming the row's identifier, and the
\* report file is written exactly when there is such a row.
BadRow(row) == ~(fen_parses(row.fen) /\ is_valid(Board(row.fen)))

C7_OneWarningPerBadRow ==
    vpc = "done" =>
        LET bad == SelectSeq(table, BadRow) IN
        /\ row_idx = Len(table) + 1
        /\ Len(invalid_rows) = Len(bad)
        /\ \A j \in 1..Len(bad) : invalid_rows[j][1] = bad[j].id
        /\ report.written = (bad # <<>>)
        /\ report.written => report.lines = [j \in 1..Len(bad) |-> bad[j].id]
        /\ (bad = <<>>) => report.message = "All positions are valid"

C7_Witness ==
    /\ vpc = "done"
    /\ Len(table) = 3
    /\ ~fen_parses(table[1].fen)
    /\ ~BadRow(table[2])
    /\ fen_parses(table[3].fen) /\ BadRow(table[3])
    /\ Len(invalid_rows) = 2

\* C8: random_legal_fen with the bound K always returns a position reached
\* from the initial position by at most K moves, each legal where it is
\* applied and none applied to a finished game.
RECURSIVE Replay(_)
Replay(stack) == IF stack = <<>> THEN InitialBoard
                 ELSE push(Replay(SubSeq(stack, 1, Len(stack) - 1)), stack[Len(stack)])

C8_SampleWithinBound ==
    /\ spc # "ValueError"
    /\ spc = "returned" =>
         /\ Len(move_stack) <= max_plies
         /\ sample = fen_of(Replay(move_stack))
         /\ \A k \in 1..Len(move_stack) :
              LET before == Replay(SubSeq(move_stack, 1, k - 1)) IN
              move_stack[k] \in legal_moves(before) /\ ~is_game_over(before)

\* C9: the cell of square (file, rank) is (file, 7 - rank) unflipped and
\* (7 - file, rank) flipped, for the painted squares and for the placed
\* pieces alike, so the flipped cell is the unflipped cell (x, y) taken to
\* (7 - x, 7 - y).
Rot180(xy) == <<7 - xy[1], 7 - xy[2]>>
Unflipped(f, r) == <<f, 7 - r>>

C9_CoordinateTransform ==
    rpc = "saved" =>
        /\ \A f \in 0..7, r \in 0..7 :
             painted[<<f, r>>] = IF flipped THEN Rot180(Unflipped(f, r))
                                 ELSE Unflipped(f, r)
        /\ \A pl \in placed :
             \E f \in 0..7, r \in 0..7 :
                /\ pl[1] = 8 * r + f
                /\ pl[2] = IF flipped THEN <<7 - f, r>> ELSE <<f, 7 - r>>
        /\ {pl[1] : pl \in placed} = occupied

C9_Witness == rpc = "saved" /\ flipped /\ Cardinality(placed) = 5

\* C10: Game Over and the result are printed only when the position is
\* game-over.
C10_GameOverOnlyWhenOver ==
    "Game Over" \in printed => is_game_over(board)
====
